---- MODULE Spec2Model ----
(***************************************************************************)
(* Model of the service locator (src/app.py): load_services builds the     *)
(* table from services.csv at import time, and get_service answers         *)
(* GET /service/<service_name> from the module-level SERVICES.             *)
(*                                                                         *)
(* Text (cells of the CSV, path segments) is a sequence of one-character   *)
(* strings, so that case, whitespace, "/" and digits are visible.          *)
(***************************************************************************)
EXTENDS Integers, Sequences, FiniteSets, TLC

VARIABLES
    source,      \* the file at SERVICES_CSV_PATH, fixed for the run
    pc,          \* position of the main thread
    services,    \* the local dict of load_services
    line,        \* number of data rows the reader has consumed
    SERVICES,    \* the module-level table (meaningful when bound)
    bound,       \* TRUE once the name SERVICES is assigned
    stdout,      \* what print() has written
    error,       \* the uncaught exception that ended the process, or "none"
    calls,       \* how many times load_services has been called
    reads,       \* how many times the source has been opened
    threads      \* the request threads of the server

vars == <<source, pc, services, line, SERVICES, bound, stdout, error, calls, reads, threads>>

----------------------------------------------------------------------------
(* Bounds and input alphabets *)

MaxRows == 2

Threads == {"t1", "t2"}

\* Python's None, as a cell, a key or a looked-up value
None == <<"None">>
NoneValue == [none |-> TRUE]

Names == { <<"a">>, <<"A">>, <<"a", "/">> }

\* the host and port cells a row may carry: a plain endpoint, one whose port
\* is past 65535, and one whose port is no number
Endpoints ==
    { [host |-> <<"h", "1">>, port |-> <<"8", "0">>],
      [host |-> <<"h", "2">>, port |-> <<"6", "5", "5", "3", "6">>],
      [host |-> <<"h", "1">>, port |-> <<"x">>] }

ExtraText == <<"e">>

\* what a client may put after "/service/" (already percent-decoded)
RequestTails == Names \cup { <<" ", "a">> }

Headers ==
    { <<"service_name", "host", "port">>,
      <<"port", "host", "service_name">>,
      <<"service_name", "extra", "host", "port">>,
      <<"service_name", "host">> }

\* the cell a row about `name` at endpoint `e` has under `column`
Cell(column, name, e) ==
    CASE column = "service_name" -> name
      [] column = "host" -> e.host
      [] column = "port" -> e.port
      [] OTHER -> ExtraText

RowOf(header, name, e) == [i \in 1..Len(header) |-> Cell(header[i], name, e)]

\* all rows that give every column of the header one cell
FullRows(header) == { RowOf(header, name, e) : name \in Names, e \in Endpoints }

Most(s) == SubSeq(s, 1, Len(s) - 1)

BaseRow(header) == RowOf(header, <<"a">>, [host |-> <<"h", "1">>, port |-> <<"8", "0">>])

\* a blank line, a row one cell short and a row one cell long
RaggedRows(header) ==
    { <<>>, Most(BaseRow(header)), Append(BaseRow(header), ExtraText) }

RowsFor(header) == FullRows(header) \cup RaggedRows(header)

RECURSIVE SeqsUpTo(_, _)
SeqsUpTo(S, n) ==
    IF n = 0 THEN { <<>> }
    ELSE LET shorter == SeqsUpTo(S, n - 1)
         IN shorter \cup { Append(s, x) : s \in { t \in shorter : Len(t) = n - 1 }, x \in S }

MissingSource == [exists |-> FALSE, header |-> <<>>, rows |-> <<>>]
EmptyFile == [exists |-> TRUE, header |-> <<>>, rows |-> <<>>]

Sources ==
    { MissingSource, EmptyFile }
    \cup UNION { { [exists |-> TRUE, header |-> h, rows |-> rs] :
                     rs \in SeqsUpTo(RowsFor(h), MaxRows) } : h \in Headers }

----------------------------------------------------------------------------
(* Python values *)

EmptyDict == <<>>

DictSet(d, k, v) == [x \in (DOMAIN d) \cup {k} |-> IF x = k THEN v ELSE d[x]]

DictGet(d, k) == IF k \in DOMAIN d THEN d[k] ELSE NoneValue

\* a handler that never tests what the lookup returned
TruthyUnchecked(v) == TRUE

\* truth value of an `if x:` test on a dict-or-None
Truthy(v) == v # NoneValue /\ DOMAIN v # {}

DigitChars == <<"0", "1", "2", "3", "4", "5", "6", "7", "8", "9">>
IsDigit(c) == \E i \in 1..Len(DigitChars) : DigitChars[i] = c
DigitVal(c) == (CHOOSE i \in 1..Len(DigitChars) : DigitChars[i] = c) - 1
IsSpace(c) == c = " "

RECURSIVE LStrip(_)
LStrip(s) == IF s # <<>> /\ IsSpace(Head(s)) THEN LStrip(Tail(s)) ELSE s

RECURSIVE RStrip(_)
RStrip(s) == IF s # <<>> /\ IsSpace(s[Len(s)]) THEN RStrip(Most(s)) ELSE s

Strip(s) == RStrip(LStrip(s))

RECURSIVE DigitsValue(_)
DigitsValue(ds) ==
    IF ds = <<>> THEN 0 ELSE 10 * DigitsValue(Most(ds)) + DigitVal(ds[Len(ds)])

\* int(text): surrounding whitespace dropped, an optional sign, then digits
PyInt(text) ==
    IF text = None THEN [err |-> "TypeError", val |-> 0]
    ELSE LET t == Strip(text)
             signed == t # <<>> /\ Head(t) \in {"+", "-"}
             ds == IF signed THEN Tail(t) ELSE t
         IN IF ds = <<>> \/ \E i \in 1..Len(ds) : ~IsDigit(ds[i])
            THEN [err |-> "ValueError", val |-> 0]
            ELSE [err |-> "none",
                  val |-> IF signed /\ Head(t) = "-" THEN -DigitsValue(ds) ELSE DigitsValue(ds)]

----------------------------------------------------------------------------
(* csv.DictReader over the source *)

RestKey == "<restkey>"

Max(S) == CHOOSE x \in S : \A y \in S : y <= x

\* a reader that takes the columns by position, whatever the header says
DictRowPositional(fieldnames, row) ==
    LET names == <<"service_name", "host", "port">>
    IN [k \in { names[i] : i \in 1..Len(names) } |->
          LET i == CHOOSE j \in 1..Len(names) : names[j] = k
          IN IF i <= Len(row) THEN row[i] ELSE None]

\* dict(zip(fieldnames, row)), then restkey for a long row, restval for a short one
DictRow(fieldnames, row) ==
    LET lf == Len(fieldnames)
        lr == Len(row)
        keys == { fieldnames[i] : i \in 1..lf } \cup (IF lf < lr THEN {RestKey} ELSE {})
    IN [k \in keys |->
          IF k = RestKey /\ lf < lr /\ ~\E i \in 1..lf : fieldnames[i] = k
          THEN SubSeq(row, lf + 1, lr)
          ELSE LET last == Max({ i \in 1..lf : fieldnames[i] = k })
               IN IF last <= lr THEN row[last] ELSE None]

\* index of the next row the reader yields after `consumed` (blank rows are
\* skipped), or 0 when the source is exhausted
NextRowIndex(rows, consumed) ==
    LET rest == { i \in (consumed + 1)..Len(rows) : rows[i] # <<>> }
    IN IF rest = {} THEN 0 ELSE CHOOSE i \in rest : \A j \in rest : i <= j

\* the rows the reader yields, in order
RECURSIVE Yielded(_)
Yielded(rows) ==
    IF rows = <<>> THEN <<>>
    ELSE IF Head(rows) = <<>> THEN Yielded(Tail(rows))
    ELSE <<Head(rows)>> \o Yielded(Tail(rows))

----------------------------------------------------------------------------
(* load_services *)

\* a loader that keeps the first row of a name (setdefault)
StoreServiceFirstWins(d, key, value) == IF key \in DOMAIN d THEN d ELSE DictSet(d, key, value)

\* services[service_name] = {...}
StoreService(d, key, value) == DictSet(d, key, value)

\* a conversion that falls back to 0 instead of raising
PortOfDefaulting(text) ==
    IF PyInt(text).err = "none" THEN PyInt(text) ELSE [err |-> "none", val |-> 0]

\* int(row["port"])
PortOf(text) == PyInt(text)

\* the body of the for loop on one row: the new dict, or the exception raised
RowStep(d, fieldnames, row) ==
    LET r == DictRow(fieldnames, row)
    IN IF "service_name" \notin DOMAIN r THEN [err |-> "KeyError", dict |-> d]
       ELSE IF "host" \notin DOMAIN r THEN [err |-> "KeyError", dict |-> d]
       ELSE IF "port" \notin DOMAIN r THEN [err |-> "KeyError", dict |-> d]
       ELSE LET p == PortOf(r["port"])
            IN IF p.err # "none" THEN [err |-> p.err, dict |-> d]
               ELSE [err |-> "none",
                     dict |-> StoreService(d, r["service_name"],
                                           [host |-> r["host"], port |-> p.val])]

RECURSIVE LoadRows(_, _, _)
LoadRows(d, fieldnames, rows) ==
    IF rows = <<>> THEN [err |-> "none", dict |-> d]
    ELSE LET step == RowStep(d, fieldnames, Head(rows))
         IN IF step.err # "none" THEN step
            ELSE LoadRows(step.dict, fieldnames, Tail(rows))

\* load_services as a function of the source: the table returned, or the
\* exception that escapes
LoadServices(src) ==
    IF ~src.exists THEN [err |-> "none", dict |-> EmptyDict]
    ELSE LoadRows(EmptyDict, src.header, Yielded(src.rows))

MissingMessage == "Error: CSV file 'services.csv' not found."

----------------------------------------------------------------------------
(* The main thread: import of the module, then app.run *)

Idle == [stage |-> "idle", tail |-> <<>>, service |-> NoneValue,
         status |-> 0, mimetype |-> "", body |-> NoneValue]

Init ==
    /\ source \in Sources
    /\ pc = "import"
    /\ services = EmptyDict
    /\ line = 0
    /\ SERVICES = EmptyDict
    /\ bound = FALSE
    /\ stdout = <<>>
    /\ error = "none"
    /\ calls = 0
    /\ reads = 0
    /\ threads = [t \in Threads |-> Idle]

\* SERVICES = load_services() is entered: services = {}
CallLoad ==
    /\ pc = "import"
    /\ pc' = "open"
    /\ services' = EmptyDict
    /\ calls' = calls + 1
    /\ UNCHANGED <<source, line, SERVICES, bound, stdout, error, reads, threads>>

\* a loader without the except clause: a missing file ends the process
OpenSourceUncaught ==
    /\ pc = "open"
    /\ reads' = reads + 1
    /\ IF source.exists
       THEN /\ pc' = "rows"
            /\ line' = 0
            /\ error' = error
       ELSE /\ pc' = "crashed"
            /\ error' = "FileNotFoundError"
            /\ line' = line
    /\ UNCHANGED <<source, services, SERVICES, bound, stdout, calls, threads>>

\* open(SERVICES_CSV_PATH): FileNotFoundError is caught and reported
OpenSource ==
    /\ pc = "open"
    /\ reads' = reads + 1
    /\ IF source.exists
       THEN /\ pc' = "rows"
            /\ line' = 0
            /\ stdout' = stdout
       ELSE /\ pc' = "return"
            /\ stdout' = Append(stdout, MissingMessage)
            /\ line' = line
    /\ UNCHANGED <<source, services, SERVICES, bound, error, calls, threads>>

\* one turn of `for row in reader`: the loop ends, the body stores a record,
\* or the body raises
NextRow ==
    /\ pc = "rows"
    /\ LET i == NextRowIndex(source.rows, line)
       IN IF i = 0
          THEN /\ pc' = "return"
               /\ line' = Len(source.rows)
               /\ UNCHANGED <<services, error>>
          ELSE LET step == RowStep(services, source.header, source.rows[i])
               IN /\ line' = i
                  /\ services' = step.dict
                  /\ error' = step.err
                  /\ pc' = IF step.err = "none" THEN "rows" ELSE "crashed"
    /\ UNCHANGED <<source, SERVICES, bound, stdout, calls, reads, threads>>

\* return services, bound to the module-level SERVICES
ReturnServices ==
    /\ pc = "return"
    /\ SERVICES' = services
    /\ bound' = TRUE
    /\ pc' = "loaded"
    /\ UNCHANGED <<source, services, line, stdout, error, calls, reads, threads>>

\* app.run(host="127.0.0.1", port=4000)
AppRun ==
    /\ pc = "loaded"
    /\ pc' = "serving"
    /\ UNCHANGED <<source, services, line, SERVICES, bound, stdout, error, calls, reads, threads>>


----------------------------------------------------------------------------
(* The request threads: routing and get_service *)

\* the rule "/service/<service_name>": the default converter takes one
\* non-empty path segment, so no "/" inside
RouteMatches(tail) == tail # <<>> /\ \A i \in 1..Len(tail) : tail[i] # "/"

\* a server started before the table is built
ListeningDuringLoad == pc \in {"rows", "return", "loaded", "serving"}

\* the server listens only once app.run has been called
Listening == pc = "serving"

UpperChars == <<"A">>
LowerChars == <<"a">>

\* str.lower() on the letters of the alphabet
Lower(text) ==
    [i \in 1..Len(text) |->
        IF \E j \in 1..Len(UpperChars) : UpperChars[j] = text[i]
        THEN LowerChars[CHOOSE j \in 1..Len(UpperChars) : UpperChars[j] = text[i]]
        ELSE text[i]]

\* a lookup that normalises the requested name first
LookupFolded(table, service_name) == DictGet(table, Lower(Strip(service_name)))

\* service = SERVICES.get(service_name)
Lookup(table, service_name) == DictGet(table, service_name)

NotFoundBody == [error |-> "Service not found"]

\* a handler that serialises only part of the record
AnswerHostOnly(service) ==
    IF Truthy(service)
    THEN [status |-> 200, mimetype |-> "application/json", body |-> [host |-> service.host]]
    ELSE [status |-> 404, mimetype |-> "application/json", body |-> NotFoundBody]

\* lines 34-36: jsonify(service), or the 404 with the error body
Answer(service) ==
    IF Truthy(service)
    THEN [status |-> 200, mimetype |-> "application/json", body |-> service]
    ELSE [status |-> 404, mimetype |-> "application/json", body |-> NotFoundBody]

\* no rule matches: the framework's own 404 page
FrameworkNotFound == [status |-> 404, mimetype |-> "text/html", body |-> NoneValue]

\* a GET for "/service/" \o tail arrives on a free thread: it is routed, and
\* get_service runs up to its lookup
Dispatch(t, tail) ==
    /\ Listening
    /\ threads[t].stage \in {"idle", "responded"}
    /\ IF RouteMatches(tail)
       THEN threads' = [threads EXCEPT ![t] =
                [stage |-> "handler", tail |-> tail, service |-> Lookup(SERVICES, tail),
                 status |-> 0, mimetype |-> "", body |-> NoneValue]]
       ELSE threads' = [threads EXCEPT ![t] =
                [stage |-> "responded", tail |-> tail, service |-> NoneValue,
                 status |-> FrameworkNotFound.status,
                 mimetype |-> FrameworkNotFound.mimetype,
                 body |-> FrameworkNotFound.body]]
    /\ UNCHANGED <<source, pc, services, line, SERVICES, bound, stdout, error, calls, reads>>

\* a handler that consumes the entry it has served
RespondEvicting(t) ==
    /\ threads[t].stage = "handler"
    /\ LET a == Answer(threads[t].service)
       IN threads' = [threads EXCEPT ![t] =
                [stage |-> "responded", tail |-> threads[t].tail,
                 service |-> threads[t].service,
                 status |-> a.status, mimetype |-> a.mimetype, body |-> a.body]]
    /\ SERVICES' = [k \in (DOMAIN SERVICES) \ {threads[t].tail} |-> SERVICES[k]]
    /\ UNCHANGED <<source, pc, services, line, bound, stdout, error, calls, reads>>

\* get_service returns its response
Respond(t) ==
    /\ threads[t].stage = "handler"
    /\ LET a == Answer(threads[t].service)
       IN threads' = [threads EXCEPT ![t] =
                [stage |-> "responded", tail |-> threads[t].tail,
                 service |-> threads[t].service,
                 status |-> a.status, mimetype |-> a.mimetype, body |-> a.body]]
    /\ UNCHANGED <<source, pc, services, line, SERVICES, bound, stdout, error, calls, reads>>

Next ==
    \/ CallLoad
    \/ OpenSource
    \/ NextRow
    \/ ReturnServices
    \/ AppRun
    \/ \E t \in Threads, tail \in RequestTails : Dispatch(t, tail)
    \/ \E t \in Threads : Respond(t)

Spec == Init /\ [][Next]_vars


----------------------------------------------------------------------------
(* What the source says, read off declaratively *)

\* the rows the reader yields, as dicts
SourceDicts == [i \in 1..Len(Yielded(source.rows)) |-> DictRow(source.header, Yielded(source.rows)[i])]

\* the rows among the first n yielded whose service_name is `key`
RowsNamed(key, n) ==
    { i \in 1..n : "service_name" \in DOMAIN SourceDicts[i] /\ SourceDicts[i]["service_name"] = key }

KeysUpTo(n) ==
    { SourceDicts[i]["service_name"] : i \in { j \in 1..n : "service_name" \in DOMAIN SourceDicts[j] } }

\* the record the last of the first n yielded rows named `key` describes
LastRecord(key, n) ==
    LET r == SourceDicts[Max(RowsNamed(key, n))]
    IN [host |-> r["host"], port |-> PyInt(r["port"]).val]

\* how many yielded rows lie among the first `consumed` rows of the source
YieldedBy(consumed) == Len(Yielded(SubSeq(source.rows, 1, consumed)))

\* the service names written in the source (a missing cell is not a name)
SourceNames == KeysUpTo(Len(SourceDicts)) \ {None}

Responded(t) == threads[t].stage = "responded"

----------------------------------------------------------------------------
(* C1 *)

\* C1 as stated: every response to GET /service/<n>, for n a service_name of
\* some row of an accepted source, is 200 with exactly host and port of the
\* last row named n.
C1_RoundTripEveryName ==
    \A t \in Threads :
        (Responded(t) /\ threads[t].tail \in SourceNames) =>
            /\ threads[t].status = 200
            /\ DOMAIN threads[t].body = {"host", "port"}
            /\ threads[t].body = LastRecord(threads[t].tail, Len(SourceDicts))

\* C1 amended: the same, for the service names that are one non-empty path
\* segment (no "/"), the only names the route /service/<service_name> takes.
C1_RoundTrip ==
    \A t \in Threads :
        (Responded(t) /\ threads[t].tail \in SourceNames /\ RouteMatches(threads[t].tail)) =>
            /\ threads[t].status = 200
            /\ threads[t].mimetype = "application/json"
            /\ DOMAIN threads[t].body = {"host", "port"}
            /\ threads[t].body = LastRecord(threads[t].tail, Len(SourceDicts))

C1_Witness ==
    \E t \in Threads :
        /\ Responded(t)
        /\ threads[t].tail \in SourceNames
        /\ Cardinality(RowsNamed(threads[t].tail, Len(SourceDicts))) = 2
        /\ threads[t].status = 200
        /\ threads[t].body.port = 80

----------------------------------------------------------------------------
(* C2 *)

----------------------------------------------------------------------------
(* C3 *)

\* C3: after the reader has yielded n rows, the dict holds exactly the names
\* of those rows, each with the host and port of the last of them carrying
\* that name; so does the table load_services returns.
C3_LastRowWins ==
    /\ (pc \in {"rows", "return"} /\ error = "none") =>
          /\ DOMAIN services = KeysUpTo(YieldedBy(line))
          /\ \A k \in DOMAIN services : services[k] = LastRecord(k, YieldedBy(line))
    /\ pc = "loaded" =>
          /\ DOMAIN SERVICES = KeysUpTo(Len(SourceDicts))
          /\ \A k \in DOMAIN SERVICES : SERVICES[k] = LastRecord(k, Len(SourceDicts))

C3_Witness ==
    /\ pc = "loaded"
    /\ \E k \in DOMAIN SERVICES :
          /\ RowsNamed(k, Len(SourceDicts)) = {1, 2}
          /\ SourceDicts[1]["host"] # SourceDicts[2]["host"]
          /\ SourceDicts[1]["port"] # SourceDicts[2]["port"]


----------------------------------------------------------------------------
(* C4 *)

\* C4: with no file at the path, load_services raises nothing, prints the
\* diagnostic once, and returns the empty table; every response is a 404.
C4_MissingSource ==
    ~source.exists =>
        /\ pc # "crashed" /\ error = "none"
        /\ pc \in {"return", "loaded", "serving"} => stdout = <<MissingMessage>>
        /\ pc \in {"return", "loaded", "serving"} => services = EmptyDict
        /\ bound => SERVICES = EmptyDict
        /\ \A t \in Threads : Responded(t) => threads[t].status = 404

C4_Witness ==
    /\ ~source.exists
    /\ pc = "serving"
    /\ stdout = <<MissingMessage>>
    /\ \E t \in Threads :
          Responded(t) /\ RouteMatches(threads[t].tail) /\ threads[t].body = NotFoundBody

----------------------------------------------------------------------------
(* C5 *)

\* the stored keys that differ from `name` only in letter case or in
\* surrounding whitespace
NearKeys(name) ==
    { k \in DOMAIN SERVICES : k # name /\ Lower(Strip(k)) = Lower(Strip(name)) }

\* C5: the handler looks up the requested name as given: what it holds after
\* the lookup is the entry stored under exactly that name, or None; a name
\* that only resembles stored keys is answered 404, never a stored record.
C5_VerbatimKey ==
    \A t \in Threads :
        /\ threads[t].stage = "handler" =>
              threads[t].service =
                  IF threads[t].tail \in DOMAIN SERVICES
                  THEN SERVICES[threads[t].tail] ELSE NoneValue
        /\ (Responded(t) /\ RouteMatches(threads[t].tail)
              /\ threads[t].tail \notin DOMAIN SERVICES /\ NearKeys(threads[t].tail) # {}) =>
              /\ threads[t].status = 404
              /\ threads[t].body = NotFoundBody
              /\ \A k \in DOMAIN SERVICES : threads[t].body # SERVICES[k]

\* both a case variant and a whitespace variant of a stored key have been
\* answered
C5_Witness ==
    \E t, u \in Threads :
        /\ Responded(t) /\ Responded(u)
        /\ DOMAIN SERVICES = { <<"a">> }
        /\ threads[t].tail = <<"A">> /\ threads[t].status = 404
        /\ threads[u].tail = <<" ", "a">> /\ threads[u].status = 404

----------------------------------------------------------------------------
(* C6 *)

SameResponse(x, y) ==
    x.status = y.status /\ x.mimetype = y.mimetype /\ x.body = y.body

\* C6: once SERVICES is bound no step, of the main thread or of a request
\* thread, changes it, and a response just given equals any response still
\* on record for the same name.
C6_ImmutableTable ==
    [][bound =>
         /\ bound'
         /\ SERVICES' = SERVICES
         /\ \A t, u \in Threads :
               (threads'[t].stage = "responded" /\ Responded(u)
                  /\ threads'[t].tail = threads[u].tail) =>
                     SameResponse(threads'[t], threads[u])]_vars

C6_Witness ==
    \E t, u \in Threads :
        /\ t # u
        /\ Responded(t) /\ Responded(u)
        /\ threads[t].tail = threads[u].tail
        /\ threads[t].status = 200
        /\ Cardinality(DOMAIN SERVICES) = 2

----------------------------------------------------------------------------
(* C7 *)

\* C7: every port of the table load_services returned lies in 0..65535.
C7_PortRange ==
    bound => \A k \in DOMAIN SERVICES : SERVICES[k].port \in 0..65535


----------------------------------------------------------------------------
(* C8 *)

Perms(n) == { p \in [1..n -> 1..n] : \A i, j \in 1..n : p[i] = p[j] => i = j }

\* the source with its columns, header and rows together, rearranged by p
Permute(src, p) ==
    [exists |-> src.exists,
     header |-> [i \in 1..Len(src.header) |-> src.header[p[i]]],
     rows |-> [j \in 1..Len(src.rows) |-> [i \in 1..Len(src.header) |-> src.rows[j][p[i]]]]]

InsertAt(seq, pos, x) == SubSeq(seq, 1, pos - 1) \o <<x>> \o SubSeq(seq, pos, Len(seq))

\* the source with one more column, not one of the three, put at pos
AddColumn(src, pos, cell) ==
    [exists |-> src.exists,
     header |-> InsertAt(src.header, pos, "added"),
     rows |-> [j \in 1..Len(src.rows) |-> InsertAt(src.rows[j], pos, cell)]]

\* every row has one cell per column: the sources whose columns can be moved
Rectangular(src) ==
    src.exists /\ \A j \in 1..Len(src.rows) : Len(src.rows[j]) = Len(src.header)

ColumnVariants(src) ==
    { Permute(src, p) : p \in Perms(Len(src.header)) }
    \cup { AddColumn(src, pos, cell) : pos \in 1..(Len(src.header) + 1), cell \in {<<"z">>, <<"8", "0">>} }

\* C8: when load_services has finished on a source whose rows have one cell
\* per column, loading the source with its columns permuted, or with a
\* column added, gives the same outcome: the same table, or the same failure.
C8_ColumnIndependence ==
    (Rectangular(source) /\ pc \in {"loaded", "crashed"}) =>
        \A v \in ColumnVariants(source) :
            /\ LoadServices(v).err = error
            /\ LoadServices(v).dict = services
            /\ bound => LoadServices(v).dict = SERVICES

C8_Witness ==
    /\ Rectangular(source)
    /\ pc = "loaded"
    /\ source.header = <<"port", "host", "service_name">>
    /\ Cardinality(DOMAIN SERVICES) = 2

----------------------------------------------------------------------------
(* C9 *)

\* C9: load_services is called once and opens the source once; a request is
\* in progress or answered only when the server is running on a bound
\* table, which is the complete table of the source, and by then the reader
\* has consumed every row.
C9_BuildBeforeServe ==
    /\ calls <= 1 /\ reads <= 1
    /\ pc \in {"loaded", "serving"} => (bound /\ calls = 1 /\ reads = 1)
    /\ (\E t \in Threads : threads[t].stage # "idle") =>
          /\ pc = "serving"
          /\ bound
          /\ LET built == LoadServices(source)
             IN built.err = "none" /\ SERVICES = built.dict
          /\ source.exists => line = Len(source.rows)

C9_Witness ==
    \E t \in Threads :
        /\ threads[t].stage = "handler"
        /\ threads[t].service # NoneValue
        /\ Len(source.rows) = 2
        /\ reads = 1

----------------------------------------------------------------------------
(* C10 *)

\* the yielded rows whose port cell is there in the header but does not
\* convert to an integer
MalformedRows ==
    { i \in 1..Len(SourceDicts) :
        "port" \in DOMAIN SourceDicts[i] /\ PyInt(SourceDicts[i]["port"]).err # "none" }

\* C10: when some row's port does not convert, SERVICES is never bound, the
\* server never runs and no request is handled; once the reader has reached
\* the first such row the process has ended with the exception.
C10_MalformedRowFails ==
    (source.exists /\ MalformedRows # {}) =>
        /\ ~bound
        /\ pc \in {"import", "open", "rows", "crashed"}
        /\ \A t \in Threads : threads[t] = Idle
        /\ (pc = "rows" => \A i \in MalformedRows : YieldedBy(line) < i)
        /\ (pc = "crashed" => error \in {"ValueError", "TypeError", "KeyError"})

C10_Witness ==
    /\ pc = "crashed"
    /\ error = "ValueError"
    /\ MalformedRows = {2}
    /\ services # EmptyDict


====
